---------------------------- MODULE Spec2Model ----------------------------
(***************************************************************************)
(* Verification model of the computational-physics scripts                 *)
(*   1_1 (standard map), 2_1 (differentiation), 3_1 (integration),         *)
(*   4_1 (driven double well), 5_1 (eigenstates), 6_1 (wave packet),       *)
(*   7_1 (periodic potential), 8_1 (ideal gas),                            *)
(*   9_1 (diffusion with drift and absorption).                            *)
(*                                                                         *)
(* The interactive scripts are modelled as a GUI event loop that calls the *)
(* click handler linksklick; the numerical routines are modelled as        *)
(* operators over exact rationals.                                         *)
(***************************************************************************)
EXTENDS Integers, Sequences, FiniteSets, TLC

VARIABLES
    \* ---- interactive scripts (1_1, 4_1, 6_1, 7_1, 9_1) ----
    script,     \* which script is running
    mode,       \* toolbar mode of the figure manager ("" = no tool active)
    pending,    \* GUI events queued and not yet handed to the handler
    stack,      \* running invocations of linksklick, innermost last
    lines,      \* axes name -> sequence of Line2D artists held by the axes
    patches,    \* the bar patches held by ax1 in 9_1
    printed,    \* number of print calls made by handlers
    nEvents,    \* number of GUI events generated so far
    accepted,   \* number of events for which the handler's test was true
    \* ---- 9_1: the handler's time loop, one accepted click after another ----
    x_0,        \* contents of the array x_0 that main binds into the handler
    x_t_is_x_0, \* is the handler's name x_t bound to that same array
    klick,      \* number of the accepted click that is being handled
    x_t,        \* positions of the R realisations
    tIdx,       \* index into the time array t of the next loop iteration
    reached,    \* per realisation: was x_t >= x_abs after some step
    x_plot,     \* indices of the realisations kept by x_t[x_t < x_abs]
    normPts,    \* the 'mit Absorption' points plotted into ax2: R(t_n)
    p_mit_abs,  \* the theoretical density with absorption of the last frame
    outcome,    \* "running", "returned", or the exception that ended the run
    steps,      \* number of times the positions have been advanced
    drawn,      \* the indices into t at which a frame has been drawn
    \* ---- pure numerical routines ----
    arg,        \* the arguments of the call
    res,        \* its result (done = FALSE before the call)
    \* ---- 8_1: reference motion of one particle between the walls ----
    pos, dir, togo, hits

guiVars == <<script, mode, pending, stack, lines, patches, printed, nEvents,
             accepted>>
simVars == <<x_0, x_t_is_x_0, klick, x_t, tIdx, reached, x_plot, normPts,
             p_mit_abs, outcome, steps, drawn>>
numVars == <<arg, res>>
gasVars == <<pos, dir, togo, hits>>
vars == <<guiVars, simVars, numVars, gasVars>>

---------------------------------------------------------------------------
(* Bounds of the model.                                                    *)

\* total number of GUI events generated in one run
MaxEvents == 3
\* number of accepted clicks of 9_1 whose time loops are followed
MaxKlicks == 2
\* number of animation frames of 6_1 (len(zeiten), 100 in the script)
AnzZeiten == 2
\* last displayed time of 9_1 (40 in the script)
T_max == 1
\* number of eigenstates drawn by main of 6_1
AnzEf == 1
\* number of bands below E_max in 7_1 (energien.shape[1])
anz == 2

\* number of realisations of 9_1 (10000 in the script)
R == 2
\* time steps per unit of time in 9_1: 1/delta_t (100 in the script)
StepsPerUnit == 2
\* position of the absorbing boundary in grid units (15 in the script)
x_abs == 2

\* test functions are polynomials of degree <= MaxDeg with coefficients in
\* -MaxCoef..MaxCoef, at most two of them non-zero
MaxDeg == 5
MaxCoef == 1
\* x_0 ranges over the halves n/2, |n| <= MaxX; a and b over the integers
\* of absolute value <= MaxX
MaxX == 2
\* h ranges over the non-zero integers of absolute value <= MaxH
MaxH == 2
\* N ranges over 1..MaxN
MaxN == 3

\* gauss: arrays have GaussLen elements, positions and expectations are
\* integers of absolute value <= MaxOrt, the variance is in 0..MaxVar
GaussLen == 2
MaxOrt == 1
MaxVar == 1
\* 8_1: positions are multiples of 1/Raster of the wall distance, speeds
\* are multiples of 1/Raster with numerator of absolute value <= MaxV,
\* delta_t is in 0..MaxT
Raster == 2
MaxV == 4
MaxT == 2

\* number of histogram bars drawn by ax1.hist
Bins == 30

---------------------------------------------------------------------------
(* The interactive scripts.                                                *)

Scripts == {"1_1", "4_1", "6_1", "9_1"}

Axes(s) ==
    CASE s = "1_1" -> {"ax"}
      [] s = "4_1" -> {"trajekt", "strob"}
      [] s = "6_1" -> {"ax"}
      [] s = "9_1" -> {"ax1", "ax2", "ax3", "ax4"}
      [] s = "7_1" -> {"ew_spektrum", "betragsquadrat"}

AllAxes == UNION {Axes(s) : s \in Scripts \cup {"7_1"}}

Buttons == {1, 3}
Modes == {"", "zoom rect"}

Line(o, f, l) == [owner |-> o, frame |-> f, label |-> l]

Rep(n, x) == [i \in 1..n |-> x]

\* What main has drawn when plt.show() starts the event loop (owner 0).
MainContent(s) ==
    CASE s = "1_1" -> [a \in AllAxes |->
                         IF a = "ax" THEN <<Line(0, 0, "")>> ELSE <<>>]
      [] s = "4_1" -> [a \in AllAxes |->
                         IF a \in Axes("4_1")
                         THEN <<Line(0, 0, "contour")>> ELSE <<>>]
      [] s = "6_1" -> [a \in AllAxes |->
                         IF a = "ax"
                         THEN <<Line(0, 0, "V")>> \o Rep(2 * AnzEf, Line(0, 0, ""))
                         ELSE <<>>]
      [] s = "9_1" -> [a \in AllAxes |->
                         IF a = "ax1"
                         THEN <<Line(0, 0, "absorbierender Rand")>> ELSE <<>>]
      [] s = "7_1" -> [a \in AllAxes |->
                         IF a = "ew_spektrum" THEN Rep(anz, Line(0, 0, "E_n"))
                         ELSE IF a = "betragsquadrat" THEN <<Line(0, 0, "V")>>
                         ELSE <<>>]

\* variant of the test: the toolbar mode is not looked at
Accepted_anymode(event, m) == event.button = 1 /\ event.inaxes # "none"

\* The test every linksklick starts with; in 7_1 the click must be in the
\* left axes (event.inaxes == ax1).
Accepted(event, m) ==
    /\ event.button = 1
    /\ IF script = "7_1" THEN event.inaxes = "ew_spektrum"
       ELSE event.inaxes # "none"
    /\ m = ""

\* The artists of one displayed frame of 9_1 (time t_n = f) drawn by click k.
Ax1Lines(k, f) ==
    << Line(k, f, "absorbierender Rand"),
       Line(k, f, "theoretische Erwartung ohne Absorption"),
       Line(k, f, "theoretische Erwartung mit Absorption") >>
SeriesPts(k, f) ==
    << Line(k, f, IF f = 0 THEN "ohne Absorption" ELSE ""),
       Line(k, f, IF f = 0 THEN "mit Absorption" ELSE "") >>
\* variant: ax1.lines is not emptied before the frame's lines are drawn
DrawFrame9_ohne_loeschen(ls, k, f) ==
    [a \in AllAxes |->
        IF a = "ax1" THEN ls[a] \o Ax1Lines(k, f)
        ELSE IF a \in {"ax2", "ax3", "ax4"} THEN ls[a] \o SeriesPts(k, f)
        ELSE ls[a]]

\* ax1.lines = [] followed by the frame's plot calls (time t_n = f, click k)
DrawFrame9(ls, k, f) ==
    [a \in AllAxes |->
        IF a = "ax1" THEN Ax1Lines(k, f)
        ELSE IF a \in {"ax2", "ax3", "ax4"} THEN ls[a] \o SeriesPts(k, f)
        ELSE ls[a]]

\* setp(ax[0], ydata=...) of 6_1: only the line of click k is changed.
SetYData(ls, k, f) ==
    [a \in AllAxes |->
        [i \in 1..Len(ls[a]) |->
            IF ls[a][i].owner = k THEN Line(k, f, ls[a][i].label)
            ELSE ls[a][i]]]

\* variant of 'ax2.lines = []' of 7_1: the lines are kept
LinienLoeschen_nicht(ls) == ls

\* ax2.lines = []
LinienLoeschen(ls) == <<>>

\* plot_eigenfunktionen of 7_1 as called by click k: the potential, anz
\* baselines and anz squared eigenfunctions are plotted into ax
plot_eigenfunktionen(ls, k) ==
    ls \o <<Line(k, 0, "V")>> \o Rep(anz, Line(k, 0, "basislinie"))
       \o Rep(anz, Line(k, 0, "betragsquadrat"))

\* variant of plt.plot: the axes' lines are replaced by the new line
AppendLine_replacing(ls, axs, ln) ==
    [a \in AllAxes |-> IF a \in axs THEN <<ln>> ELSE ls[a]]

AppendLine(ls, axs, ln) ==
    [a \in AllAxes |-> IF a \in axs THEN Append(ls[a], ln) ELSE ls[a]]

\* linksklick(event): the handler up to its return (1_1, 4_1) or up to its
\* first canvas.flush_events() (6_1, 9_1).
linksklick(event) ==
    IF Accepted(event, mode)
    THEN /\ accepted' = accepted + 1
         /\ CASE script = "1_1" ->
                   /\ lines' = AppendLine(lines, {"ax"}, Line(accepted + 1, 0, ""))
                   /\ UNCHANGED <<patches, printed, stack>>
              [] script = "4_1" ->
                   /\ lines' = AppendLine(lines, {"trajekt", "strob"},
                                          Line(accepted + 1, 0, ""))
                   /\ UNCHANGED <<patches, printed, stack>>
              [] script = "6_1" ->
                   /\ printed' = printed + 1
                   /\ lines' = AppendLine(lines, {"ax"}, Line(accepted + 1, 1, ""))
                   /\ stack' = Append(stack, [click |-> accepted + 1, frame |-> 1])
                   /\ UNCHANGED patches
              [] script = "7_1" ->
                   /\ lines' = [lines EXCEPT !["betragsquadrat"] =
                                  plot_eigenfunktionen(LinienLoeschen(@),
                                                       accepted + 1)]
                   /\ UNCHANGED <<patches, printed, stack>>
              [] script = "9_1" ->
                   /\ patches' = Rep(Bins, [owner |-> accepted + 1, frame |-> 0])
                   /\ lines' = DrawFrame9(lines, accepted + 1, 0)
                   /\ stack' = Append(stack, [click |-> accepted + 1, frame |-> 1])
                   /\ UNCHANGED printed
    ELSE UNCHANGED <<lines, patches, printed, stack, accepted>>

\* The user presses a mouse button somewhere in the window.
UserEvent ==
    /\ nEvents < MaxEvents
    /\ \E b \in Buttons, a \in Axes(script) \cup {"none"} :
          pending' = Append(pending, [button |-> b, inaxes |-> a])
    /\ nEvents' = nEvents + 1
    /\ UNCHANGED <<script, mode, stack, lines, patches, printed, accepted>>
    /\ UNCHANGED <<simVars, numVars, gasVars>>

\* The user switches a toolbar tool on or off.
ToolbarToggle ==
    /\ \E m \in Modes \ {mode} : mode' = m
    /\ UNCHANGED <<script, pending, stack, lines, patches, printed, nEvents,
                   accepted>>
    /\ UNCHANGED <<simVars, numVars, gasVars>>

\* plt.show(): the event loop hands the next event to the connected handler.
MainLoopDispatch ==
    /\ stack = <<>>
    /\ pending # <<>>
    /\ linksklick(Head(pending))
    /\ pending' = Tail(pending)
    /\ UNCHANGED <<script, mode, nEvents>>
    /\ UNCHANGED <<simVars, numVars, gasVars>>

\* canvas.flush_events() inside a running handler: the GUI toolkit processes
\* the queued events, calling the connected handler for each of them.
FlushEvents ==
    /\ stack # <<>>
    /\ pending # <<>>
    /\ linksklick(Head(pending))
    /\ pending' = Tail(pending)
    /\ UNCHANGED <<script, mode, nEvents>>
    /\ UNCHANGED <<simVars, numVars, gasVars>>

\* flush_events() returns with nothing left to process: plt.draw(), then the
\* innermost handler runs its next loop iteration up to the next
\* flush_events(), or leaves the loop and returns.
HandlerResume ==
    /\ stack # <<>>
    /\ pending = <<>>
    /\ LET top == stack[Len(stack)]
           rest == SubSeq(stack, 1, Len(stack) - 1)
           last == IF script = "6_1" THEN AnzZeiten ELSE T_max + 1
       IN IF top.frame < last
          THEN /\ stack' = Append(rest, [top EXCEPT !.frame = top.frame + 1])
               /\ IF script = "6_1"
                  THEN /\ lines' = SetYData(lines, top.click, top.frame + 1)
                       /\ UNCHANGED patches
                  ELSE /\ lines' = DrawFrame9(lines, top.click, top.frame)
                       /\ patches' = Rep(Bins, [owner |-> top.click,
                                                frame |-> top.frame])
               /\ UNCHANGED printed
          ELSE /\ stack' = rest
               /\ printed' = IF script = "6_1" THEN printed + 1 ELSE printed
               /\ UNCHANGED <<lines, patches>>
    /\ UNCHANGED <<script, mode, pending, nEvents, accepted>>
    /\ UNCHANGED <<simVars, numVars, gasVars>>

IdleSim == /\ x_0 = <<>> /\ x_t_is_x_0 = FALSE /\ klick = 0
           /\ x_t = <<>> /\ tIdx = 0 /\ reached = <<>> /\ x_plot = {}
           /\ normPts = <<>> /\ p_mit_abs = <<>> /\ outcome = "idle"
           /\ steps = 0 /\ drawn = <<>>
NotCalled == [done |-> FALSE]
IdleNum == arg = [f |-> "none"] /\ res = NotCalled
IdleGas == pos = 0 /\ dir = 0 /\ togo = 0 /\ hits = 0
IdleGui == /\ script = "none" /\ mode = "" /\ pending = <<>> /\ stack = <<>>
           /\ lines = <<>> /\ patches = <<>> /\ printed = 0 /\ nEvents = 0
           /\ accepted = 0

Init ==
    /\ script \in Scripts
    /\ mode = ""
    /\ pending = <<>>
    /\ stack = <<>>
    /\ lines = MainContent(script)
    /\ patches = <<>>
    /\ printed = 0
    /\ nEvents = 0
    /\ accepted = 0
    /\ IdleSim /\ IdleNum /\ IdleGas

Next ==
    \/ UserEvent
    \/ ToolbarToggle
    \/ MainLoopDispatch
    \/ FlushEvents
    \/ HandlerResume

Spec == Init /\ [][Next]_vars

\* 7_1: its handler returns without calling flush_events.
Init71 ==
    /\ script = "7_1"
    /\ mode = ""
    /\ pending = <<>>
    /\ stack = <<>>
    /\ lines = MainContent("7_1")
    /\ patches = <<>>
    /\ printed = 0
    /\ nEvents = 0
    /\ accepted = 0
    /\ IdleSim /\ IdleNum /\ IdleGas

Next71 ==
    \/ UserEvent
    \/ ToolbarToggle
    \/ MainLoopDispatch

Spec71 == Init71 /\ [][Next71]_vars

---------------------------------------------------------------------------
(* Exact rational arithmetic: a rational is a pair <<n, d>> in lowest      *)
(* terms with d > 0.                                                       *)

Abs(n) == IF n < 0 THEN -n ELSE n

RECURSIVE GCD(_, _)
GCD(a, b) == IF b = 0 THEN a ELSE GCD(b, a % b)

Rat(n, d) ==
    LET g == GCD(Abs(n), Abs(d))
        sg == IF d < 0 THEN -1 ELSE 1
    IN  <<sg * (n \div g), sg * (d \div g)>>

RInt(n) == <<n, 1>>
RNeg(p) == <<-p[1], p[2]>>
RAdd(p, q) ==
    LET g == GCD(p[2], q[2])
    IN  Rat(p[1] * (q[2] \div g) + q[1] * (p[2] \div g), (p[2] \div g) * q[2])
RSub(p, q) == RAdd(p, RNeg(q))
RMul(p, q) ==
    LET g1 == GCD(Abs(p[1]), q[2])
        g2 == GCD(Abs(q[1]), p[2])
    IN  IF p[1] = 0 \/ q[1] = 0 THEN <<0, 1>>
        ELSE <<(p[1] \div g1) * (q[1] \div g2), (p[2] \div g2) * (q[2] \div g1)>>
RInv(p) == IF p[1] < 0 THEN <<-p[2], -p[1]>> ELSE <<p[2], p[1]>>
RDiv(p, q) == RMul(p, RInv(q))
RLess(p, q) == p[1] * q[2] < q[1] * p[2]

RECURSIVE RPow(_, _)
RPow(p, k) == IF k = 0 THEN <<1, 1>> ELSE RMul(p, RPow(p, k - 1))

RECURSIVE RSum(_, _, _)
\* sum of term(i) for i = lo..hi
RSum(term(_), lo, hi) ==
    IF lo > hi THEN <<0, 1>> ELSE RAdd(term(lo), RSum(term, lo + 1, hi))

---------------------------------------------------------------------------
(* Test functions: polynomials c[0] + c[1]*x + ... + c[MaxDeg]*x^MaxDeg.   *)

Polys ==
    {c \in [0..MaxDeg -> -MaxCoef..MaxCoef] :
        Cardinality({d \in 0..MaxDeg : c[d] # 0}) <= 2}

Monomial(k) == [d \in 0..MaxDeg |-> IF d = k THEN 1 ELSE 0]

Degree(c) ==
    IF \A d \in 0..MaxDeg : c[d] = 0 THEN 0
    ELSE CHOOSE d \in 0..MaxDeg : c[d] # 0 /\ \A e \in (d + 1)..MaxDeg : c[e] = 0

\* funktion(x), by Horner's rule
RECURSIVE Horner(_, _, _)
Horner(c, x, d) ==
    IF d = MaxDeg THEN RInt(c[d])
    ELSE RAdd(RInt(c[d]), RMul(x, Horner(c, x, d + 1)))
Apply(c, x) == Horner(c, x, 0)

\* the analytic derivative of the polynomial at x
Derivative(c, x) ==
    RSum(LAMBDA d : RMul(RInt(d * c[d]), RPow(x, d - 1)), 1, MaxDeg)

\* the analytic integral of the polynomial over [a, b]
Integral(c, a, b) ==
    RSum(LAMBDA d : RMul(Rat(c[d], d + 1),
                         RSub(RPow(b, d + 1), RPow(a, d + 1))), 0, MaxDeg)

---------------------------------------------------------------------------
(* 2_1: the three difference formulas.                                     *)

vor_diff(funktion, x, h) ==
    RDiv(RSub(Apply(funktion, RAdd(x, h)), Apply(funktion, x)), h)

\* variant: the difference over [x-h/2, x+h/2] divided by 2*h
zentral_diff_2h(funktion, x, h) ==
    RDiv(RSub(Apply(funktion, RAdd(x, RDiv(h, RInt(2)))),
              Apply(funktion, RSub(x, RDiv(h, RInt(2))))), RMul(RInt(2), h))

zentral_diff(funktion, x, h) ==
    RDiv(RSub(Apply(funktion, RAdd(x, RDiv(h, RInt(2)))),
              Apply(funktion, RSub(x, RDiv(h, RInt(2))))), h)

\* variant: weight 4 instead of 8 on the inner difference
extrapol_diff_w4(funktion, x, h) ==
    RDiv(RSub(RMul(RInt(4),
                   RSub(Apply(funktion, RAdd(x, RDiv(h, RInt(4)))),
                        Apply(funktion, RSub(x, RDiv(h, RInt(4)))))),
              RSub(Apply(funktion, RAdd(x, RDiv(h, RInt(2)))),
                   Apply(funktion, RSub(x, RDiv(h, RInt(2)))))),
         RMul(RInt(3), h))

extrapol_diff(funktion, x, h) ==
    RDiv(RSub(RMul(RInt(8),
                   RSub(Apply(funktion, RAdd(x, RDiv(h, RInt(4)))),
                        Apply(funktion, RSub(x, RDiv(h, RInt(4)))))),
              RSub(Apply(funktion, RAdd(x, RDiv(h, RInt(2)))),
                   Apply(funktion, RSub(x, RDiv(h, RInt(2)))))),
         RMul(RInt(3), h))

DiffArgs ==
    [f : Polys,
     x_0 : {Rat(n, 2) : n \in -MaxX..MaxX},
     h : {RInt(n) : n \in (-MaxH..MaxH) \ {0}}]

DiffCall ==
    /\ ~res.done
    /\ res' = [done |-> TRUE,
               vor |-> vor_diff(arg.f, arg.x_0, arg.h),
               zentral |-> zentral_diff(arg.f, arg.x_0, arg.h),
               extrapol |-> extrapol_diff(arg.f, arg.x_0, arg.h)]
    /\ UNCHANGED <<arg, guiVars, simVars, gasVars>>

InitDiff ==
    /\ arg \in DiffArgs
    /\ res = NotCalled
    /\ IdleGui /\ IdleSim /\ IdleGas

NextDiff == DiffCall

SpecDiff == InitDiff /\ [][NextDiff]_vars

\* C7: vor_diff is exact for polynomials of degree <= 1 and has error
\* exactly h on x^2; zentral_diff is exact for degree <= 2 and has error
\* exactly h^2/4 on x^3; extrapol_diff is exact for degree <= 4 and has
\* error exactly -h^4/64 on x^5 (orders of accuracy 1, 2 and 4).
C7_OrdersOfAccuracy ==
    res.done =>
        LET f == arg.f
            h == arg.h
            d == Derivative(f, arg.x_0)
        IN  /\ Degree(f) <= 1 => res.vor = d
            /\ f = Monomial(2) => RSub(res.vor, d) = h
            /\ Degree(f) <= 2 => res.zentral = d
            /\ f = Monomial(3) => RSub(res.zentral, d) = RDiv(RMul(h, h), RInt(4))
            /\ Degree(f) <= 4 => res.extrapol = d
            /\ f = Monomial(5) =>
                  RSub(res.extrapol, d) = RDiv(RNeg(RPow(h, 4)), RInt(64))

\* C7 witness: the three formulas have been applied to x^5 at x_0 = 1/2 with
\* h = -1, and each of them is off the analytic derivative.
C7_Witness ==
    /\ res.done
    /\ arg.f = Monomial(5) /\ arg.x_0 = <<1, 2>> /\ arg.h = <<-1, 1>>
    /\ res.vor # Derivative(arg.f, arg.x_0)
    /\ res.zentral # Derivative(arg.f, arg.x_0)
    /\ res.extrapol = RAdd(Derivative(arg.f, arg.x_0), <<-1, 64>>)

\* C9: extrapol_diff(f, x_0, h) equals the Richardson extrapolation
\* (4*zentral_diff(f, x_0, h/2) - zentral_diff(f, x_0, h)) / 3.
C9_Richardson ==
    res.done =>
        res.extrapol =
            RDiv(RSub(RMul(RInt(4),
                           zentral_diff(arg.f, arg.x_0, RDiv(arg.h, RInt(2)))),
                      zentral_diff(arg.f, arg.x_0, arg.h)),
                 RInt(3))

\* C9 witness: a call on a two-term polynomial of degree 5 where the
\* extrapolated difference differs from the central difference it refines.
C9_Witness ==
    /\ res.done
    /\ Degree(arg.f) = 5 /\ arg.f # Monomial(5)
    /\ res.extrapol # res.zentral
    /\ res.extrapol # zentral_diff(arg.f, arg.x_0, RDiv(arg.h, RInt(2)))

---------------------------------------------------------------------------
(* 3_1: the three integration rules.                                       *)

\* np.linspace(a, b, N, endpoint=False, retstep=True): the step, and the
\* N nodes a, a + step, ..., a + (N-1)*step
linspace_step(a, b, N) == RDiv(RSub(b, a), RInt(N))
\* variant: the nodes start one step late, at a + step
linspace_late(a, b, N) ==
    [i \in 1..N |-> RAdd(a, RMul(RInt(i), linspace_step(a, b, N)))]
linspace(a, b, N) ==
    [i \in 1..N |-> RAdd(a, RMul(RInt(i - 1), linspace_step(a, b, N)))]

\* variant: half the interval as strip width
Streifenbreite1_half(a, b) == RDiv(RSub(b, a), RInt(2))
\* the strip width set by the branch for N = 1
Streifenbreite1(a, b) == RSub(b, a)

\* np.sum(funktion(x + s)) over the array x
SumF(funktion, x, s) ==
    RSum(LAMBDA i : Apply(funktion, RAdd(x[i], s)), 1, Len(x))

\* the return expressions, for nodes x and strip width h
mittelpunkt_formel(funktion, x, h) ==
    RMul(h, SumF(funktion, x, RDiv(h, RInt(2))))
trapez_formel(funktion, x, h) ==
    RMul(RDiv(h, RInt(2)),
         RAdd(SumF(funktion, x, RInt(0)), SumF(funktion, x, h)))
simpson_formel(funktion, x, h) ==
    RMul(RDiv(h, RInt(6)),
         RAdd(RAdd(SumF(funktion, x, RInt(0)),
                   RMul(RInt(4), SumF(funktion, x, RDiv(h, RInt(2))))),
              SumF(funktion, x, h)))

mittelpunkt_int(funktion, a, b, N) ==
    IF N = 1
    THEN mittelpunkt_formel(funktion, <<a>>, Streifenbreite1(a, b))
    ELSE mittelpunkt_formel(funktion, linspace(a, b, N), linspace_step(a, b, N))

trapez_int(funktion, a, b, N) ==
    IF N = 1
    THEN trapez_formel(funktion, <<a>>, Streifenbreite1(a, b))
    ELSE trapez_formel(funktion, linspace(a, b, N), linspace_step(a, b, N))

simpson_int(funktion, a, b, N) ==
    IF N = 1
    THEN simpson_formel(funktion, <<a>>, Streifenbreite1(a, b))
    ELSE simpson_formel(funktion, linspace(a, b, N), linspace_step(a, b, N))

IntArgs ==
    {r \in [f : Polys,
            a : {RInt(n) : n \in -MaxX..MaxX},
            b : {RInt(n) : n \in -MaxX..MaxX},
            N : 1..MaxN] : RLess(r.a, r.b)}

IntCall ==
    /\ ~res.done
    /\ res' = [done |-> TRUE,
               mittelpunkt |-> mittelpunkt_int(arg.f, arg.a, arg.b, arg.N),
               trapez |-> trapez_int(arg.f, arg.a, arg.b, arg.N),
               simpson |-> simpson_int(arg.f, arg.a, arg.b, arg.N)]
    /\ UNCHANGED <<arg, guiVars, simVars, gasVars>>

InitInt ==
    /\ arg \in IntArgs
    /\ res = NotCalled
    /\ IdleGui /\ IdleSim /\ IdleGas

NextInt == IntCall

SpecInt == InitInt /\ [][NextInt]_vars

\* C6: for N = 1 the three rules return (b-a)*f((a+b)/2),
\* (b-a)/2*(f(a)+f(b)) and (b-a)/6*(f(a)+4*f((a+b)/2)+f(b)), which is what
\* the general branch's formula gives with x = linspace(a, b, N) and
\* h = (b-a)/N at N = 1.
C6_SingleInterval ==
    (res.done /\ arg.N = 1) =>
        LET f == arg.f
            a == arg.a
            b == arg.b
            w == RSub(b, a)
            m == RDiv(RAdd(a, b), RInt(2))
        IN  /\ res.mittelpunkt = RMul(w, Apply(f, m))
            /\ res.trapez = RMul(RDiv(w, RInt(2)), RAdd(Apply(f, a), Apply(f, b)))
            /\ res.simpson =
                  RMul(RDiv(w, RInt(6)),
                       RAdd(RAdd(Apply(f, a), RMul(RInt(4), Apply(f, m))),
                            Apply(f, b)))
            /\ res.mittelpunkt =
                  mittelpunkt_formel(f, linspace(a, b, 1), RDiv(w, RInt(1)))
            /\ res.trapez = trapez_formel(f, linspace(a, b, 1), RDiv(w, RInt(1)))
            /\ res.simpson = simpson_formel(f, linspace(a, b, 1), RDiv(w, RInt(1)))

\* C6 witness: the rules have been called with N = 1 on a polynomial of
\* degree 4 over an interval of width 3, where all three results differ.
C6_Witness ==
    /\ res.done /\ arg.N = 1
    /\ Degree(arg.f) = 4 /\ RSub(arg.b, arg.a) = <<3, 1>>
    /\ res.mittelpunkt # res.trapez
    /\ res.trapez # res.simpson
    /\ res.simpson # Integral(arg.f, arg.a, arg.b)

\* C8: for a < b and N >= 1, mittelpunkt_int and trapez_int integrate every
\* polynomial of degree <= 1 exactly and simpson_int every polynomial of
\* degree <= 3.
C8_Exactness ==
    res.done =>
        LET I == Integral(arg.f, arg.a, arg.b)
        IN  /\ Degree(arg.f) <= 1 => res.mittelpunkt = I /\ res.trapez = I
            /\ Degree(arg.f) <= 3 => res.simpson = I

\* C8 witness: a call with N >= 2 on a polynomial of degree 3, where the
\* Simpson rule is exact and the other two rules are not.
C8_Witness ==
    /\ res.done /\ arg.N >= 2
    /\ Degree(arg.f) = 3
    /\ res.simpson = Integral(arg.f, arg.a, arg.b)
    /\ res.mittelpunkt # Integral(arg.f, arg.a, arg.b)
    /\ res.trapez # Integral(arg.f, arg.a, arg.b)

---------------------------------------------------------------------------
(* 9_1: gauss(x, mu, var).                                                 *)
(* x is a NumPy array or a scalar, mu a NumPy array (as in every call of   *)
(* the script); a scalar is carried as an array of one element and         *)
(* broadcast.  A density value is zero, nan or the positive number         *)
(* exp(-dsq/(2*var))/sqrt(2*pi*var), kept symbolically.                    *)

Zero == [kind |-> "zero", dsq |-> 0, var |-> 0]
NaN == [kind |-> "nan", dsq |-> 0, var |-> 0]
Dens(dsq, var) == [kind |-> "dens", dsq |-> dsq, var |-> var]

Elem(x, i) == IF x.scalar THEN x.v[1] ELSE x.v[i]

\* (mu != x).all()
AnyDiffer(x, mu) == \E i \in 1..Len(mu) : mu[i] # Elem(x, i)
AllDiffer(x, mu) == \A i \in 1..Len(mu) : mu[i] # Elem(x, i)

\* (1/(np.sqrt(2*np.pi*var))) * np.exp(-(((x - mu)**2)/(2*var))), element
\* by element; with var = 0 the first factor is inf and the second is
\* exp(-inf) = 0 or exp(nan), so every element is nan
GaussFormel(x, mu, var) ==
    [i \in 1..Len(mu) |->
        IF var = 0 THEN NaN
        ELSE Dens((Elem(x, i) - mu[i]) * (Elem(x, i) - mu[i]), var)]

\* variant: the test uses .any() instead of .all()
gauss_any(x, mu, var) ==
    IF var = 0 /\ AnyDiffer(x, mu)
    THEN [divided |-> FALSE, val |-> [i \in 1..Len(x.v) |-> Zero]]
    ELSE [divided |-> TRUE, val |-> GaussFormel(x, mu, var)]

\* divided: the else branch, which divides by var, was evaluated
gauss(x, mu, var) ==
    IF var = 0 /\ AllDiffer(x, mu)
    THEN [divided |-> FALSE, val |-> [i \in 1..Len(x.v) |-> Zero]]
    ELSE [divided |-> TRUE, val |-> GaussFormel(x, mu, var)]

GaussArgs ==
    [x : [scalar : {TRUE}, v : [1..1 -> -MaxOrt..MaxOrt]]
           \cup [scalar : {FALSE}, v : [1..GaussLen -> -MaxOrt..MaxOrt]],
     mu : [1..GaussLen -> -MaxOrt..MaxOrt],
     var : 0..MaxVar]

GaussCall ==
    /\ ~res.done
    /\ res' = [done |-> TRUE, gauss |-> gauss(arg.x, arg.mu, arg.var)]
    /\ UNCHANGED <<arg, guiVars, simVars, gasVars>>

InitGauss ==
    /\ arg \in GaussArgs
    /\ res = NotCalled
    /\ IdleGui /\ IdleSim /\ IdleGas

NextGauss == GaussCall

SpecGauss == InitGauss /\ [][NextGauss]_vars

AllZero(val) == \A i \in DOMAIN val : val[i] = Zero

\* C5 as stated: for var = 0 gauss never evaluates the expression that
\* divides by var and returns zero density for every element, for any x
\* and mu, also when some element of x equals mu.
C5_GuardedForAnyInput ==
    (res.done /\ arg.var = 0) =>
        ~res.gauss.divided /\ AllZero(res.gauss.val)

\* C5 amended: for var = 0, gauss skips the expression that divides by var
\* and returns zero density for every element exactly when every element
\* of x differs from the corresponding element of mu; when some element of
\* x equals mu the guard does not apply, the dividing expression is
\* evaluated and no element of the result is a zero density.
C5_GuardedWhereAllDiffer ==
    (res.done /\ arg.var = 0) =>
        IF \A i \in 1..GaussLen : arg.mu[i] # Elem(arg.x, i)
        THEN ~res.gauss.divided /\ AllZero(res.gauss.val)
        ELSE res.gauss.divided /\ \A i \in 1..GaussLen : res.gauss.val[i] = NaN

\* C5 witness: gauss has been called with var = 0 on an array x that
\* differs from mu everywhere, and has returned zeros without dividing.
C5_Witness ==
    /\ res.done /\ arg.var = 0 /\ ~arg.x.scalar
    /\ \A i \in 1..GaussLen : arg.mu[i] # arg.x.v[i]
    /\ ~res.gauss.divided /\ AllZero(res.gauss.val)

---------------------------------------------------------------------------
(* 8_1: reflexionen, and the motion of one particle between the walls at   *)
(* x = 0 and x = 1 that its closed form counts.                            *)

RAbs(p) == <<Abs(p[1]), p[2]>>

\* np.int32(q) for q >= 0: the integer part
Int32(q) == q[1] \div q[2]

\* variant: without abs()
reflexionen_noabs(x0, v, delta_t) ==
    LET x_end == RAdd(x0, RMul(v, delta_t))
    IN  Int32(RDiv(RAdd(x_end, RInt(1)), RInt(2)))

reflexionen(x0, v, delta_t) ==
    LET x_end == RAdd(x0, RMul(v, delta_t))
    IN  Int32(RDiv(RAdd(RAbs(x_end), RInt(1)), RInt(2)))

Sign(n) == IF n > 0 THEN 1 ELSE IF n < 0 THEN -1 ELSE 0

\* arg.x_0 and arg.v count in units of 1/Raster
GasArgs == [x_0 : 0..Raster, v : -MaxV..MaxV, delta_t : 0..MaxT]

\* the particle is on a wall and moves into it
AtRightWall == pos = Raster /\ dir = 1
AtLeftWall == pos = 0 /\ dir = -1

\* the particle flies on by 1/Raster
Fly ==
    /\ togo > 0
    /\ ~AtRightWall /\ ~AtLeftWall
    /\ pos' = pos + dir
    /\ togo' = togo - 1
    /\ UNCHANGED <<dir, hits, numVars, guiVars, simVars>>

\* elastic reflection at the right wall: one hit
ReflectRight ==
    /\ AtRightWall
    /\ dir' = -1
    /\ hits' = hits + 1
    /\ UNCHANGED <<pos, togo, numVars, guiVars, simVars>>

\* elastic reflection at the left wall
ReflectLeft ==
    /\ AtLeftWall
    /\ dir' = 1
    /\ UNCHANGED <<pos, togo, hits, numVars, guiVars, simVars>>

ReflexionenCall ==
    /\ ~res.done
    /\ res' = [done |-> TRUE,
               n |-> reflexionen(Rat(arg.x_0, Raster), Rat(arg.v, Raster),
                                 RInt(arg.delta_t))]
    /\ UNCHANGED <<arg, gasVars, guiVars, simVars>>

\* the interval of length delta_t is over
MotionOver == togo = 0 /\ ~AtRightWall /\ ~AtLeftWall

InitGas ==
    /\ arg \in GasArgs
    /\ res = NotCalled
    /\ pos = arg.x_0
    /\ dir = Sign(arg.v)
    /\ togo = Abs(arg.v) * arg.delta_t
    /\ hits = 0
    /\ IdleGui /\ IdleSim

NextGas == Fly \/ ReflectRight \/ ReflectLeft \/ ReflexionenCall

SpecGas == InitGas /\ [][NextGas]_vars

\* C10 as stated: for x_0 in [0, 1] and either sign of v, reflexionen
\* equals the number of hits of the right wall during the interval.
C10_CountsHitsClosedRange ==
    (res.done /\ MotionOver) => res.n = hits

\* C10 amended: the same for x_0 in [0, 1), the range main draws x_0 from.
C10_CountsHits ==
    (res.done /\ MotionOver /\ arg.x_0 < Raster) => res.n = hits

\* C10 witness: a particle that started inside [0, 1) with negative
\* velocity has been reflected at the left wall and has hit the right wall
\* twice, and reflexionen has returned 2.
C10_Witness ==
    /\ res.done /\ MotionOver
    /\ arg.x_0 < Raster /\ arg.v < 0
    /\ hits = 2 /\ res.n = 2

---------------------------------------------------------------------------
(* Claims about the interactive scripts.                                   *)

\* C2 as stated: while one invocation of linksklick is running, no second
\* invocation starts; invocations never nest, also during the animation
\* loops of 6_1 and 9_1.
C2_HandlersNeverNest == Len(stack) <= 1

\* an event as the claim describes the accepted ones: a left-button press
\* inside an axes while no toolbar tool is active
LeftPressInAxesNoTool(e, m) == e.button = 1 /\ e.inaxes # "none" /\ m = ""

\* the step hands the head of the event queue to linksklick
HandsOver == pending # <<>> /\ pending' = Tail(pending)

\* C3: linksklick computes and draws only for a left-button press inside an
\* axes while the toolbar mode is empty; for every other event it returns
\* without changing any plot content and without printing.  Plot content
\* and output change only in a step that hands over such an event or that
\* continues an invocation started by one.
C3_OnlyLeftClicksDraw ==
    [][ /\ (HandsOver /\ ~LeftPressInAxesNoTool(Head(pending), mode))
            => UNCHANGED <<lines, patches, printed, stack, accepted>>
        /\ (lines' # lines \/ patches' # patches \/ printed' # printed)
            => \/ HandsOver /\ LeftPressInAxesNoTool(Head(pending), mode)
               \/ stack # <<>> /\ ~HandsOver
      ]_vars

\* C3 witness: all events of the run have been handed to the handler, one
\* of them was accepted and drew, the others were not and the content
\* holds nothing of them.
C3_Witness ==
    /\ nEvents = MaxEvents /\ pending = <<>> /\ stack = <<>>
    /\ accepted = 1
    /\ mode # ""
    /\ \E a \in Axes(script) :
          \E i \in 1..Len(lines[a]) : lines[a][i].owner = 1

ClickLines(a) == SubSeq(lines[a], Len(MainContent(script)[a]) + 1, Len(lines[a]))

\* C4: in 1_1, 4_1 and 6_1 every accepted click appends one line per
\* subplot and removes or replaces none: each axes holds what main drew,
\* followed by one line per accepted click, in the order of the clicks.
C4_ClicksOnlyAppend ==
    script \in {"1_1", "4_1", "6_1"} =>
        \A a \in Axes(script) :
            /\ Len(lines[a]) = Len(MainContent(script)[a]) + accepted
            /\ SubSeq(lines[a], 1, Len(MainContent(script)[a]))
                  = MainContent(script)[a]
            /\ \A k \in 1..accepted : ClickLines(a)[k].owner = k

\* C4 witness: 4_1 after two accepted clicks, with both trajectories in
\* both subplots.
C4_Witness ==
    /\ script = "4_1" /\ accepted = 2
    /\ Len(lines["trajekt"]) = 3 /\ Len(lines["strob"]) = 3

---------------------------------------------------------------------------
(* 9_1: the time loop of one accepted click, one loop iteration per step.  *)
(* Positions live on an integer grid; the Langevin increment               *)
(* v_drift*delta_t + sqrt(2*D*delta_t)*randn() is any of Jumps.            *)

Jumps == {-1, 0, 1}

\* variant: t = np.arange(0, T_max, delta_t), which leaves out T_max
LastIdx_ohne_T_max == T_max * StepsPerUnit - 1

\* t = np.arange(0, T_max + delta_t, delta_t), taken as exact multiples of
\* delta_t: index j stands for the time j*delta_t.
LastIdx == T_max * StepsPerUnit

\* i % 1.0 == 0.0
Displayed(j) == j % StepsPerUnit = 0

\* the time i of a displayed index j, a whole number
Zeit(j) == j \div StepsPerUnit

\* np.zeros(n)
np_zeros(n) == [r \in 1..n |-> 0]

\* variant of the update of the positions: x_t += ..., which writes the new
\* positions into the array that x_t is bound to
Neubindung_inplace(feld, ist_feld, neu) == IF ist_feld THEN neu ELSE feld

\* x_t = (x_t + ...): the sum is a new array and the name x_t is bound to
\* it; the array that x_t was bound to before keeps its contents.  The
\* result is the contents of feld afterwards.
Neubindung(feld, ist_feld, neu) == feld

\* x_plot = x_t[x_t < x_abs], as the set of indices kept
Keep(x) == {r \in 1..R : x[r] < x_abs}

\* x_0 + v_drift*i and 2*x_abs - x_0 + v_drift*i, in grid units where
\* v_drift is one grid step per unit of time
mu_ohne(i) == [r \in 1..R |-> x_0[r] + i]
mu_spiegel(i) == [r \in 1..R |-> 2 * x_abs - x_0[r] + i]

\* 2*D*i, in units where 2*D is 1
Varianz(i) == i

\* a value of p_mit_abs that the expression of the try block produced
Wert == [kind |-> "wert", dsq |-> 0, var |-> 0]

\* The expression of the try block.  x_abs is a Python int, so a gauss call
\* on it that takes the guarded branch returns the Python float 0.0 * x_abs;
\* a Python float divided by the Python float 0.0 raises ZeroDivisionError,
\* while every operation with a NumPy array on one side yields an array.
AusdruckMitAbs(xt, i) ==
    LET xa == [scalar |-> FALSE, v |-> xt]
        xs == [scalar |-> TRUE, v |-> <<x_abs>>]
        g3 == gauss(xs, mu_ohne(i), Varianz(i))
        g4 == gauss(xs, mu_spiegel(i), Varianz(i))
    IN IF ~g3.divided /\ ~g4.divided
       THEN [raised |-> TRUE, val |-> <<>>]
       ELSE [raised |-> FALSE, val |-> [r \in 1..Len(xt) |-> Wert]]

\* variant of the except clause: it names an exception that is not raised
TryExcept_andere(e, n) ==
    IF e.raised THEN [caught |-> FALSE, escaped |-> TRUE, val |-> <<>>]
    ELSE [caught |-> FALSE, escaped |-> FALSE, val |-> e.val]

\* try: p_mit_abs = ...  except ZeroDivisionError: p_mit_abs = np.zeros(n)
TryExcept(e, n) ==
    IF e.raised
    THEN [caught |-> TRUE, escaped |-> FALSE, val |-> [r \in 1..n |-> Zero]]
    ELSE [caught |-> FALSE, escaped |-> FALSE, val |-> e.val]

\* One iteration of 'for i in t': both branches advance the positions, the
\* branch for whole-numbered times also draws the frame.
LoopStep ==
    /\ outcome = "running"
    /\ tIdx <= LastIdx
    /\ \E noise \in [1..R -> Jumps] :
          /\ x_t' = [r \in 1..R |-> x_t[r] + noise[r]]
          /\ x_0' = Neubindung(x_0, x_t_is_x_0, x_t')
          /\ x_t_is_x_0' = FALSE
          /\ reached' = [r \in 1..R |-> reached[r] \/ x_t'[r] >= x_abs]
          /\ steps' = steps + 1
          /\ IF Displayed(tIdx)
             THEN \E th \in {TryExcept(AusdruckMitAbs(x_t', Zeit(tIdx)),
                                        Len(x_t'))} :
                     /\ x_plot' = Keep(x_t')
                     /\ p_mit_abs' = [caught |-> th.caught, val |-> th.val]
                     /\ IF th.escaped
                        THEN /\ outcome' = "ZeroDivisionError"
                             /\ UNCHANGED <<normPts, drawn>>
                        ELSE /\ normPts' = Append(normPts, Cardinality(x_plot'))
                             /\ drawn' = Append(drawn, tIdx)
                             /\ UNCHANGED outcome
             ELSE UNCHANGED <<x_plot, normPts, p_mit_abs, drawn, outcome>>
    /\ tIdx' = tIdx + 1
    /\ UNCHANGED <<klick, guiVars, numVars, gasVars>>

\* the array t is exhausted: the handler returns
LoopExit ==
    /\ outcome = "running"
    /\ tIdx > LastIdx
    /\ outcome' = "returned"
    /\ UNCHANGED <<x_0, x_t_is_x_0, klick, x_t, tIdx, reached, x_plot,
                   normPts, p_mit_abs, steps, drawn>>
    /\ UNCHANGED <<guiVars, numVars, gasVars>>

\* The handler has returned and the next accepted click calls it again,
\* with the same array x_0 that functools.partial holds: 'x_t = x_0' binds
\* x_t to that array, and the records of the invocation start afresh.
NaechsterKlick ==
    /\ outcome = "returned"
    /\ klick < MaxKlicks
    /\ klick' = klick + 1
    /\ x_t' = x_0
    /\ x_t_is_x_0' = TRUE
    /\ tIdx' = 0
    /\ reached' = [r \in 1..R |-> FALSE]
    /\ x_plot' = {}
    /\ normPts' = <<>>
    /\ p_mit_abs' = [caught |-> FALSE, val |-> <<>>]
    /\ outcome' = "running"
    /\ steps' = 0
    /\ drawn' = <<>>
    /\ UNCHANGED <<x_0, guiVars, numVars, gasVars>>

\* main has created x_0 = np.zeros(R) and the first accepted click has
\* entered the handler
Init91 ==
    /\ x_0 = np_zeros(R)
    /\ klick = 1
    /\ x_t = x_0
    /\ x_t_is_x_0 = TRUE
    /\ tIdx = 0
    /\ reached = [r \in 1..R |-> FALSE]
    /\ x_plot = {}
    /\ normPts = <<>>
    /\ p_mit_abs = [caught |-> FALSE, val |-> <<>>]
    /\ outcome = "running"
    /\ steps = 0
    /\ drawn = <<>>
    /\ IdleGui /\ IdleNum /\ IdleGas

Next91 == LoopStep \/ LoopExit \/ NaechsterKlick

Spec91 == Init91 /\ [][Next91]_vars

---------------------------------------------------------------------------
(* Claims about the time loop of 9_1.                                      *)

\* the state right after a loop iteration that displayed its time
JustDisplayed == tIdx > 0 /\ Displayed(tIdx - 1)

\* C1 as stated: a realisation whose position has reached or exceeded
\* x_abs at any time step is never again among x_plot at a displayed time,
\* so the surviving count R(t_n) never increases from one displayed time
\* to the next.
C1_AbsorbedForGood ==
    /\ JustDisplayed => \A r \in x_plot : ~reached[r]
    /\ \A k \in 1..(Len(normPts) - 1) : normPts[k + 1] <= normPts[k]

---------------------------------------------------------------------------
(* 1_1: torus_iteration, one loop iteration per step.  Angles and momenta  *)
(* live on a grid of TorusM steps per 2*pi.                                *)

\* grid steps per 2*pi
TorusM == 4
\* largest kick strength K, in grid steps
MaxK == 2
\* the K fixed in main, in grid steps (2.6 in the script)
K_main == 2
\* the number of iterations n (1000 in the script, as default and as passed
\* by linksklick)
n_iter == 3

\* np.sin on the grid: a 2*pi-periodic function (the sign of the sine)
Sinus(theta) ==
    LET t == theta % TorusM
    IN IF t = 0 \/ 2 * t = TorusM THEN 0 ELSE IF 2 * t < TorusM THEN 1 ELSE -1

\* A value of theta or p is <<g, e>>: the grid value g for e = 0, else a
\* float next to it, below it for e < 0 and above it for e > 0.  Next to 0
\* and next to -pi such a float is closer to the grid value than half the
\* spacing of the floats at 2*pi.  Sums and differences are taken as exact.
Gitter(g) == <<g, 0>>
Plus(a, b) == <<a[1] + b[1], a[2] + b[2]>>
Minus(a, b) == <<a[1] - b[1], a[2] - b[2]>>

\* variant of %: the remainder has the sign of the dividend, as C's fmod
Mod2pi_fmod(y) ==
    IF y[1] < 0 THEN <<-((-y[1]) % TorusM), y[2]>>
    ELSE <<y[1] % TorusM, y[2]>>

\* y % (2*np.pi) on floats: the remainder r of fmod has the sign of y and is
\* exact; a negative r is replaced by r + 2*np.pi, and this sum is rounded:
\* for a y next to 0 it is 2*np.pi itself.
Mod2pi(y) ==
    LET g == y[1] % TorusM
    IN IF g = 0 /\ y[2] < 0
       THEN (IF y[1] = 0 THEN <<TorusM, 0>> ELSE <<TorusM, y[2]>>)
       ELSE <<g, y[2]>>

\* (y + np.pi) % (2*np.pi) - np.pi
Wrap(y) ==
    Minus(Mod2pi(Plus(y, Gitter(TorusM \div 2))), Gitter(TorusM \div 2))

\* K*np.sin(theta): the sine is taken at the grid point next to theta; what
\* it differs by is lost in the rounding of '+ np.pi'
Kick(K, theta) == Gitter(K * Sinus(theta[1]))

\* variant of the loop body: the point is appended before it is advanced
Iteration_startpunkt(st, K) ==
    LET theta == Plus(st.theta, Mod2pi(st.p))
        p == Plus(st.p, Wrap(Kick(K, theta)))
    IN [st EXCEPT !.theta = theta, !.p = p, !.i = st.i + 1,
                  !.plottheta = Append(st.plottheta, Mod2pi(st.theta)),
                  !.plotp = Append(st.plotp, Wrap(st.p))]

\* the body of the loop 'for i in range(n)'
Iteration(st, K) ==
    LET theta == Plus(st.theta, Mod2pi(st.p))
        p == Plus(st.p, Wrap(Kick(K, theta)))
    IN [st EXCEPT !.theta = theta, !.p = p, !.i = st.i + 1,
                  !.plottheta = Append(st.plottheta, Mod2pi(theta)),
                  !.plotp = Append(st.plotp, Wrap(p))]

\* the grid values from -2*pi to 2*pi and the floats next to the grid
\* value g
Start(g) ==
    {Gitter(k) : k \in (-TorusM)..TorusM} \cup {<<g, -1>>, <<g, 1>>}

\* the calls of torus_iteration: main's call with the defaults for theta, p
\* and K, the handler's call with the clicked point and main's K, and calls
\* with any K and n and a starting point inside or outside the plotted
\* ranges, on the grid or next to 0 (theta) and next to -pi (p)
TorusArgs ==
    [caller : {"main"}, theta : {Gitter(0)}, p : {Gitter(0)}, K : {0},
     n : {n_iter}]
    \cup [caller : {"linksklick"},
          theta : {Gitter(g) : g \in 0..(TorusM - 1)},
          p : {Gitter(g) : g \in (-(TorusM \div 2))..(TorusM \div 2)},
          K : {K_main}, n : {n_iter}]
    \cup [caller : {"any"}, theta : Start(0), p : Start(-(TorusM \div 2)),
          K : 0..MaxK, n : 0..n_iter]

TorusStep ==
    /\ ~res.done
    /\ res.i < arg.n
    /\ res' = Iteration(res, arg.K)
    /\ UNCHANGED <<arg, guiVars, simVars, gasVars>>

TorusReturn ==
    /\ ~res.done
    /\ res.i = arg.n
    /\ res' = [res EXCEPT !.done = TRUE]
    /\ UNCHANGED <<arg, guiVars, simVars, gasVars>>

InitTorus ==
    /\ arg \in TorusArgs
    /\ res = [done |-> FALSE, i |-> 0, theta |-> arg.theta, p |-> arg.p,
              plottheta |-> <<>>, plotp |-> <<>>]
    /\ IdleGui /\ IdleSim /\ IdleGas

NextTorus == TorusStep \/ TorusReturn

SpecTorus == InitTorus /\ [][NextTorus]_vars

\* the point of the torus that a pair of grid values stands for
Torus(theta, p) ==
    <<theta % TorusM,
      ((p + (TorusM \div 2)) % TorusM) - (TorusM \div 2)>>

\* one application of the standard map to a point of the torus
Standardabbildung(s, K) ==
    Torus(s[1] + s[2], s[2] + K * Sinus(s[1] + s[2]))

RECURSIVE Iteriert(_, _, _)
\* the point after k applications of the standard map
Iteriert(s, K, k) ==
    IF k = 0 THEN s ELSE Standardabbildung(Iteriert(s, K, k - 1), K)

\* C11: torus_iteration returns two lists of exactly n entries, entry i
\* (counted from 0) being the point after i+1 applications of the standard
\* map to the starting point, so the starting point itself is not returned;
\* the handler's call asks for n = 1000 points with the K fixed in main.
\* For a starting point on the grid the entries are the iterates themselves,
\* for one next to the grid they are the iterates as points of the torus.
C11_TorusIteration ==
    res.done =>
        /\ Len(res.plottheta) = arg.n /\ Len(res.plotp) = arg.n
        /\ \A j \in 1..arg.n :
              LET soll == Iteriert(Torus(arg.theta[1], arg.p[1]), arg.K, j)
              IN /\ Torus(res.plottheta[j][1], res.plotp[j][1]) = soll
                 /\ (arg.theta[2] = 0 /\ arg.p[2] = 0) =>
                       /\ res.plottheta[j] = Gitter(soll[1])
                       /\ res.plotp[j] = Gitter(soll[2])
        /\ arg.caller = "linksklick" => arg.n = n_iter /\ arg.K = K_main

\* C11 witness: the handler's call has returned its n points, the first of
\* which differs from the clicked point.
C11_Witness ==
    /\ res.done /\ arg.caller = "linksklick"
    /\ Len(res.plottheta) = n_iter /\ n_iter > 0
    /\ <<res.plottheta[1], res.plotp[1]>> # <<arg.theta, arg.p>>

---------------------------------------------------------------------------
(* 4_1: the time grid of linksklick and the samples of the stroboscopic    *)
(* plot.  Times are rationals in units of 2*pi, so the driving period      *)
(* 2*pi/omega is 1/omega.                                                  *)

\* largest omega
MaxOmega == 2
\* largest number of periods (200 in the script)
MaxPerioden == 2

\* np.linspace(start, stop, num) with the end point included
linspace_endpoint(start, stop, num) ==
    IF num = 1 THEN <<start>>
    ELSE [j \in 1..num |->
             RAdd(start, RMul(RInt(j - 1),
                              RDiv(RSub(stop, start), RInt(num - 1))))]

\* 2*np.pi/omega
Periode(omega) == Rat(1, omega)

\* variant: perioden*N samples instead of perioden*N + 1
zeiten_ohne_endpunkt(omega, perioden, N) ==
    [j \in 1..(perioden * N) |-> RMul(RInt(j - 1), RDiv(Periode(omega), RInt(N)))]

\* zeiten = np.linspace(0.0, (2*np.pi/omega)*perioden, perioden*N+1)
zeiten(omega, perioden, N) ==
    linspace_endpoint(RInt(0), RMul(Periode(omega), RInt(perioden)),
                      perioden * N + 1)

\* odeint(ableitung, y0, zeiten): row j is the solution at zeiten[j] that
\* starts at y0 (row 0 is y0 itself)
odeint(y0, zt) == [j \in 1..Len(zt) |-> [y0 |-> y0, t |-> zt[j]]]

\* counter = np.arange(perioden+1)
counter(perioden) == [c \in 1..(perioden + 1) |-> c - 1]

\* y[idx] for an index array idx (indices counted from 0); an index outside
\* the array raises IndexError
Auswahl(y, idx) ==
    IF \E c \in 1..Len(idx) : idx[c] >= Len(y)
    THEN [IndexError |-> TRUE, pts |-> <<>>]
    ELSE [IndexError |-> FALSE, pts |-> [c \in 1..Len(idx) |-> y[idx[c] + 1]]]

\* the accepted clicks: the clicked point and the parameters fixed by main
StrobArgs ==
    [xdata : -1..1, ydata : -1..1, omega : 1..MaxOmega,
     perioden : 0..MaxPerioden, N : 1..MaxN]

ZeitenBerechnen ==
    /\ res.pc = "zeiten"
    /\ res' = [res EXCEPT !.pc = "odeint",
                          !.zeiten = zeiten(arg.omega, arg.perioden, arg.N)]
    /\ UNCHANGED <<arg, guiVars, simVars, gasVars>>

Odeint ==
    /\ res.pc = "odeint"
    /\ res' = [res EXCEPT !.pc = "strob",
                          !.y_t = odeint(<<arg.xdata, arg.ydata>>, res.zeiten)]
    /\ UNCHANGED <<arg, guiVars, simVars, gasVars>>

StrobPlot ==
    /\ res.pc = "strob"
    /\ LET c == counter(arg.perioden)
       IN res' = [res EXCEPT !.pc = "return", !.done = TRUE,
                     !.strob = Auswahl(res.y_t,
                                       [i \in 1..Len(c) |-> c[i] * arg.N])]
    /\ UNCHANGED <<arg, guiVars, simVars, gasVars>>

InitStrob ==
    /\ arg \in StrobArgs
    /\ res = [done |-> FALSE, pc |-> "zeiten", zeiten |-> <<>>, y_t |-> <<>>,
              strob |-> [IndexError |-> FALSE, pts |-> <<>>]]
    /\ IdleGui /\ IdleSim /\ IdleGas

NextStrob == ZeitenBerechnen \/ Odeint \/ StrobPlot

SpecStrob == InitStrob /\ [][NextStrob]_vars

\* C12: the time grid has perioden*N + 1 samples, sample j at time
\* j*(2*pi/omega)/N; the stroboscopic plot takes the samples at indices
\* 0, N, ..., perioden*N, all inside the array: exactly perioden + 1 points
\* at the whole multiples of the period, the first being the clicked
\* initial condition at t = 0.
C12_StrobSamples ==
    res.done =>
        /\ Len(res.zeiten) = arg.perioden * arg.N + 1
        /\ \A j \in 0..(arg.perioden * arg.N) :
              res.zeiten[j + 1]
                 = RMul(RInt(j), RDiv(Periode(arg.omega), RInt(arg.N)))
        /\ ~res.strob.IndexError
        /\ Len(res.strob.pts) = arg.perioden + 1
        /\ \A c \in 0..arg.perioden :
              res.strob.pts[c + 1]
                 = [y0 |-> <<arg.xdata, arg.ydata>>,
                    t |-> RMul(RInt(c), Periode(arg.omega))]
        /\ res.strob.pts[1] = [y0 |-> <<arg.xdata, arg.ydata>>, t |-> RInt(0)]

\* C12 witness: a click has been handled with several periods and several
\* points per period, and the last stroboscopic point is the last sample.
C12_Witness ==
    /\ res.done /\ arg.perioden = MaxPerioden /\ arg.N > 1 /\ arg.omega > 1
    /\ res.strob.pts[arg.perioden + 1] = res.y_t[Len(res.y_t)]
    /\ Len(res.y_t) > arg.perioden + 1

---------------------------------------------------------------------------
(* Claims about 7_1.                                                       *)

\* ax2 as one accepted click k leaves it
NurKlick(k) ==
    <<Line(k, 0, "V")>> \o Rep(anz, Line(k, 0, "basislinie"))
       \o Rep(anz, Line(k, 0, "betragsquadrat"))

\* C13: in 7_1 only left clicks inside the left axes (the spectrum) with no
\* toolbar tool active are accepted; every other event, a click in the
\* right axes included, changes nothing.  Each accepted click deletes the
\* lines of the right axes and redraws, so after any number of accepted
\* clicks the right axes holds exactly 2*anz + 1 lines (one potential
\* curve, anz baselines, anz squared eigenfunctions), all of the most
\* recent click; the left axes keeps what main drew.
C13_RightAxesRedrawn ==
    /\ [](/\ lines["ew_spektrum"] = MainContent("7_1")["ew_spektrum"]
          /\ accepted = 0 =>
                lines["betragsquadrat"] = MainContent("7_1")["betragsquadrat"]
          /\ accepted > 0 =>
                /\ Len(lines["betragsquadrat"]) = 2 * anz + 1
                /\ lines["betragsquadrat"] = NurKlick(accepted))
    /\ [][ HandsOver =>
             IF /\ Head(pending).button = 1
                /\ Head(pending).inaxes = "ew_spektrum"
                /\ mode = ""
             THEN accepted' = accepted + 1
             ELSE UNCHANGED <<lines, patches, printed, stack, accepted>>
         ]_vars

\* C13 witness: three events have been handled, two of them accepted; the
\* right axes holds the 2*anz + 1 lines of the second accepted click.
C13_Witness ==
    /\ script = "7_1" /\ nEvents = MaxEvents /\ pending = <<>>
    /\ accepted = 2
    /\ Len(lines["betragsquadrat"]) = 2 * anz + 1
    /\ \A i \in 1..Len(lines["betragsquadrat"]) :
          lines["betragsquadrat"][i].owner = 2

---------------------------------------------------------------------------
(* 7_1: diskretisierung.                                                   *)

\* delta_x = (xmax - xmin) / (N + 1)
Ortsgitterabstand(xmin, xmax, N) == RDiv(RSub(xmax, xmin), RInt(N + 1))

\* diskretisierung(xmin, xmax, N, retstep): the grid points x and, with
\* retstep, delta_x
diskretisierung(xmin, xmax, N, retstep) ==
    LET delta_x == Ortsgitterabstand(xmin, xmax, N)
        x == linspace(RAdd(xmin, delta_x), RSub(xmax, delta_x), N)
    IN [x |-> x, retstep |-> retstep,
        delta_x |-> IF retstep THEN delta_x ELSE RInt(0)]

DiskArgs ==
    {r \in [xmin : {RInt(n) : n \in -MaxX..MaxX},
            xmax : {RInt(n) : n \in -MaxX..MaxX},
            N : 2..(MaxN + 1),
            retstep : BOOLEAN] : RLess(r.xmin, r.xmax)}

DiskretisierungCall ==
    /\ ~res.done
    /\ res' = [done |-> TRUE,
               ret |-> diskretisierung(arg.xmin, arg.xmax, arg.N, arg.retstep)]
    /\ UNCHANGED <<arg, guiVars, simVars, gasVars>>

InitDisk ==
    /\ arg \in DiskArgs
    /\ res = NotCalled
    /\ IdleGui /\ IdleSim /\ IdleGas

NextDisk == DiskretisierungCall

SpecDisk == InitDisk /\ [][NextDisk]_vars

\* C14 as stated: diskretisierung(xmin, xmax, N, retstep=True) returns N
\* grid points together with the spacing of exactly those points: the
\* returned delta_x equals x[1] - x[0], the value diagonalisierung
\* recomputes, for every xmin < xmax and N >= 2.
C14_ReturnedSpacingIsGridSpacing ==
    (res.done /\ arg.retstep) =>
        /\ Len(res.ret.x) = arg.N
        /\ res.ret.delta_x = RSub(res.ret.x[2], res.ret.x[1])

---------------------------------------------------------------------------
(* Claims about the frames of 9_1.                                         *)

\* C15: at the frame for t = 0, where the theoretical variance 2*D*t is 0,
\* the division of the two zero densities at x_abs raises
\* ZeroDivisionError, which is caught: p_mit_abs is zero for every one of
\* the R particles, no exception leaves the handler, and the frame is drawn.
C15_ZeroDivisionCaught ==
    /\ outcome # "ZeroDivisionError"
    /\ (tIdx >= 1 /\ tIdx <= StepsPerUnit) =>
          /\ p_mit_abs.caught
          /\ Len(p_mit_abs.val) = R /\ AllZero(p_mit_abs.val)
          /\ drawn = <<0>>

\* C15 witness: the frame for t = 0 has just been drawn with the caught
\* division, one particle still sitting at its starting point.
C15_Witness ==
    /\ tIdx = 1 /\ outcome = "running" /\ p_mit_abs.caught
    /\ drawn = <<0>> /\ x_t[1] = x_0[1] /\ x_t[2] # x_0[2]


\* C16: in one run of the handler the positions are advanced once at every
\* point 0, delta_t, ..., T_max of the time grid; a frame is drawn exactly
\* at the grid points whose time is a whole number and at no other; the
\* run ends after the frame for T_max.
C16_StepsAndFrames ==
    /\ steps = tIdx
    /\ tIdx <= T_max * StepsPerUnit + 1
    /\ Len(drawn) = (tIdx + StepsPerUnit - 1) \div StepsPerUnit
    /\ \A k \in 1..Len(drawn) : drawn[k] = (k - 1) * StepsPerUnit
    /\ outcome = "returned" =>
          /\ steps = T_max * StepsPerUnit + 1
          /\ Len(drawn) = T_max + 1
          /\ drawn[Len(drawn)] = T_max * StepsPerUnit

\* C16 witness: the run has ended; between two frames the positions were
\* advanced without drawing.
C16_Witness ==
    /\ outcome = "returned" /\ StepsPerUnit > 1
    /\ steps = T_max * StepsPerUnit + 1 /\ Len(drawn) = T_max + 1


\* the bars ax1.hist draws for frame f of click k
Balken(k, f) == Rep(Bins, [owner |-> k, frame |-> f])

\* C17: when a frame of 9_1 has been drawn, ax1 holds only that frame's
\* artists: the Bins bars of its histogram, one boundary line and the two
\* theoretical curves (exactly 3 lines); nothing of an earlier frame or an
\* earlier click remains.  The first conjunct describes ax1 at any time
\* after the first frame, the second every step that draws a frame: the
\* first frame of a click (k = accepted', f = 0) and the later frames of
\* the innermost running invocation.
C17_OnlyCurrentFrame ==
    /\ []((script = "9_1" /\ accepted > 0) =>
            /\ Len(lines["ax1"]) = 3 /\ Len(patches) = Bins
            /\ \E k \in 1..accepted, f \in 0..T_max :
                  lines["ax1"] = Ax1Lines(k, f) /\ patches = Balken(k, f))
    /\ [][ script = "9_1" =>
             /\ accepted' = accepted + 1 =>
                   /\ lines'["ax1"] = Ax1Lines(accepted', 0)
                   /\ patches' = Balken(accepted', 0)
             /\ (accepted' = accepted /\ Len(stack') = Len(stack)
                   /\ stack' # stack) =>
                   LET top == stack[Len(stack)]
                   IN /\ lines'["ax1"] = Ax1Lines(top.click, top.frame)
                      /\ patches' = Balken(top.click, top.frame)
         ]_vars

\* C17 witness: the second click's last frame has been drawn after the
\* first click's run; ax1 holds the three lines and the bars of that frame.
C17_Witness ==
    /\ script = "9_1" /\ accepted = 2
    /\ lines["ax1"] = Ax1Lines(2, T_max) /\ patches = Balken(2, T_max)

\* the entries ax.legend() shows: the labelled lines of the axes
Legende(a) == SelectSeq(lines[a], LAMBDA l : l.label # "")

\* C18 as stated: in ax2, ax3 and ax4 each of the two series is plotted with
\* its label only once, so after any number of accepted clicks each of the
\* three legends has exactly two entries.
C18_TwoLegendEntries ==
    (script = "9_1" /\ accepted > 0) =>
        \A a \in {"ax2", "ax3", "ax4"} : Len(Legende(a)) = 2

---------------------------------------------------------------------------
(* 4_1: ableitung, the right-hand side of the equations of motion, and the *)
(* Hamiltonian whose contour lines main draws.                             *)

\* variant: A enters with the opposite sign
ableitung_vorzeichen(y, t, A, B, omega) ==
    << y[2],
       RAdd(RAdd(RMul(RInt(-4), RPow(y[1], 3)), RMul(RInt(2), y[1])),
            RSub(RInt(A), RInt(B * Sinus(omega * t)))) >>

\* np.array([y[1], (-4)*y[0]**3 + 2*y[0] - A - B*np.sin(omega*t)])
ableitung(y, t, A, B, omega) ==
    << y[2],
       RSub(RSub(RAdd(RMul(RInt(-4), RPow(y[1], 3)), RMul(RInt(2), y[1])),
                 RInt(A)),
            RInt(B * Sinus(omega * t))) >>

\* H = p2D**2/2 + x2D**4 - x2D**2 + A*x2D, doubled to keep the coefficients
\* whole: the polynomial in x and the polynomial in p of 2*H
ZweiH_x(A) ==
    [d \in 0..MaxDeg |->
        IF d = 4 THEN 2 ELSE IF d = 2 THEN -2 ELSE IF d = 1 THEN 2 * A ELSE 0]
ZweiH_p == [d \in 0..MaxDeg |-> IF d = 2 THEN 1 ELSE 0]

\* the partial derivatives of H
dH_dx(x, A) == RDiv(Derivative(ZweiH_x(A), x), RInt(2))
dH_dp(p) == RDiv(Derivative(ZweiH_p, p), RInt(2))

\* x and p range over the halves n/2, t over the grid of TorusM steps per
\* 2*pi, A and B over whole numbers
AblArgs ==
    [x : {Rat(n, 2) : n \in -MaxX..MaxX},
     p : {Rat(n, 2) : n \in -MaxX..MaxX},
     t : 0..(TorusM - 1),
     A : -MaxCoef..MaxCoef,
     B : 0..1,
     omega : 1..MaxOmega]

AbleitungCall ==
    /\ ~res.done
    /\ res' = [done |-> TRUE,
               dot |-> ableitung(<<arg.x, arg.p>>, arg.t, arg.A, arg.B,
                                 arg.omega)]
    /\ UNCHANGED <<arg, guiVars, simVars, gasVars>>

InitAbl ==
    /\ arg \in AblArgs
    /\ res = NotCalled
    /\ IdleGui /\ IdleSim /\ IdleGas

NextAbl == AbleitungCall

SpecAbl == InitAbl /\ [][NextAbl]_vars

\* C19: for B = 0 the vector field of ableitung conserves
\* H(x, p) = p^2/2 + x^4 - x^2 + A*x: with (dot_x, dot_p) =
\* ableitung([x, p], t, A, 0, omega), dot_x = dH/dp, dot_p = -dH/dx and
\* (dH/dx)*dot_x + (dH/dp)*dot_p = 0 for every x, p, t, A and omega.
C19_HamiltonianConserved ==
    (res.done /\ arg.B = 0) =>
        /\ res.dot[1] = dH_dp(arg.p)
        /\ res.dot[2] = RNeg(dH_dx(arg.x, arg.A))
        /\ RAdd(RMul(dH_dx(arg.x, arg.A), res.dot[1]),
                RMul(dH_dp(arg.p), res.dot[2])) = RInt(0)

\* C19 witness: ableitung has been called with B = 0 at a point where
\* neither component of the field vanishes, at a time when sin(omega*t)
\* is not zero.
C19_Witness ==
    /\ res.done /\ arg.B = 0 /\ arg.A # 0
    /\ Sinus(arg.omega * arg.t) # 0
    /\ res.dot[1] # RInt(0) /\ res.dot[2] # RInt(0)

---------------------------------------------------------------------------
(* 5_1 and 7_1: the matrix handed to eigh.  An entry [V, z, ph] stands for *)
(* the number V + z*z0*exp(i*ph), with z0 = h_eff^2/(2*delta_x^2) and ph   *)
(* the multiple of the Bloch phase k in the exponent.                      *)

\* largest dimension N of the matrix
MaxDim == 4
\* largest Bloch phase k
MaxPhase == 1

Eintrag(V, z, ph) == [V |-> V, z |-> z, ph |-> ph]

\* the complex conjugate of an entry
Conj(e) == [e EXCEPT !.ph = -e.ph]

\* np.diag(v, k=off): the square matrix with v on diagonal off, 0 elsewhere
diag(v, off) ==
    LET n == Len(v) + Abs(off)
    IN [ij \in (1..n) \X (1..n) |->
           IF ij[2] - ij[1] = off
           THEN v[IF off >= 0 THEN ij[1] ELSE ij[2]]
           ELSE Eintrag(0, 0, 0)]

\* the sum of two matrices of real entries
MatAdd(a, b) ==
    [ij \in DOMAIN a |-> Eintrag(a[ij].V + b[ij].V, a[ij].z + b[ij].z, 0)]

\* 5_1: np.diag(V, k=0) + np.diag(np.ones(N)*2*z, k=0)
\*      + np.diag(np.ones(N-1)*-z, k=-1) + np.diag(np.ones(N-1)*-z, k=+1)
matrix_5_1(N, V) ==
    MatAdd(MatAdd(MatAdd(diag([i \in 1..N |-> Eintrag(V[i], 0, 0)], 0),
                         diag([i \in 1..N |-> Eintrag(0, 2, 0)], 0)),
                  diag([i \in 1..(N - 1) |-> Eintrag(0, -1, 0)], -1)),
           diag([i \in 1..(N - 1) |-> Eintrag(0, -1, 0)], 1))

\* 7_1: np.diag(v_werte + 2.0*z + 0j) + np.diag(-z*np.ones(N-1) + 0j, k=-1)
\*      + np.diag(-z*np.ones(N-1) + 0j, k=1), with N = len(x)
h_7_1(V) ==
    LET N == Len(V)
    IN MatAdd(MatAdd(diag([i \in 1..N |-> Eintrag(V[i], 2, 0)], 0),
                     diag([i \in 1..(N - 1) |-> Eintrag(0, -1, 0)], -1)),
              diag([i \in 1..(N - 1) |-> Eintrag(0, -1, 0)], 1))

\* -z * np.exp(-1j*k)
EintragObenRechts(k) == Eintrag(0, -1, -k)
\* variant: the lower left corner gets the exponent of the upper right one
EintragUntenLinks_minus(k) == Eintrag(0, -1, -k)
\* -z * np.exp(+1j*k)
EintragUntenLinks(k) == Eintrag(0, -1, k)

\* the potential values at the grid points and, for 7_1, the Bloch phase
HamArgs ==
    UNION {[prog : {"5_1", "7_1"}, N : {n}, V : [1..n -> 0..1],
            k : -MaxPhase..MaxPhase] : n \in 3..MaxDim}

\* the sum of the diagonal matrices
Aufstellen ==
    /\ res.pc = "aufstellen"
    /\ res' = [res EXCEPT
                 !.h = IF arg.prog = "5_1" THEN matrix_5_1(arg.N, arg.V)
                       ELSE h_7_1(arg.V),
                 !.pc = IF arg.prog = "5_1" THEN "eigh" ELSE "ecke_oben"]
    /\ UNCHANGED <<arg, guiVars, simVars, gasVars>>

\* h[0, -1] = -z * np.exp(-1j*k)
EckeObenRechts ==
    /\ res.pc = "ecke_oben"
    /\ res' = [res EXCEPT !.h[<<1, arg.N>>] = EintragObenRechts(arg.k),
                          !.pc = "ecke_unten"]
    /\ UNCHANGED <<arg, guiVars, simVars, gasVars>>

\* h[-1, 0] = -z * np.exp(+1j*k)
EckeUntenLinks ==
    /\ res.pc = "ecke_unten"
    /\ res' = [res EXCEPT !.h[<<arg.N, 1>>] = EintragUntenLinks(arg.k),
                          !.pc = "eigh"]
    /\ UNCHANGED <<arg, guiVars, simVars, gasVars>>

\* eigh(h): the matrix is handed to the eigensolver
Eigh ==
    /\ res.pc = "eigh"
    /\ res' = [res EXCEPT !.pc = "return", !.done = TRUE]
    /\ UNCHANGED <<arg, guiVars, simVars, gasVars>>

InitHam ==
    /\ arg \in HamArgs
    /\ res = [done |-> FALSE, pc |-> "aufstellen", h |-> <<>>]
    /\ IdleGui /\ IdleSim /\ IdleGas

NextHam == Aufstellen \/ EckeObenRechts \/ EckeUntenLinks \/ Eigh

SpecHam == InitHam /\ [][NextHam]_vars

\* C20: the matrix handed to eigh is Hermitian and has the diagonal entries
\* V(x_i) + 2z, the nearest-neighbour entries -z and 0 elsewhere, except
\* that in 7_1 the corners are h[0, N-1] = -z*exp(-ik) and
\* h[N-1, 0] = -z*exp(+ik), complex conjugates of each other and both -z
\* at k = 0; in 5_1 the corners are 0.  For every N >= 3.
C20_HermitianMatrix ==
    res.done =>
        /\ DOMAIN res.h = (1..arg.N) \X (1..arg.N)
        /\ \A i, j \in 1..arg.N :
              /\ res.h[<<j, i>>] = Conj(res.h[<<i, j>>])
              /\ res.h[<<i, j>>] =
                    IF i = j THEN Eintrag(arg.V[i], 2, 0)
                    ELSE IF Abs(i - j) = 1 THEN Eintrag(0, -1, 0)
                    ELSE IF arg.prog = "7_1" /\ i = 1 /\ j = arg.N
                         THEN Eintrag(0, -1, -arg.k)
                    ELSE IF arg.prog = "7_1" /\ i = arg.N /\ j = 1
                         THEN Eintrag(0, -1, arg.k)
                    ELSE Eintrag(0, 0, 0)
        /\ (arg.prog = "7_1" /\ arg.k = 0) =>
              /\ res.h[<<1, arg.N>>] = Eintrag(0, -1, 0)
              /\ res.h[<<arg.N, 1>>] = Eintrag(0, -1, 0)

\* C20 witness: 7_1 has handed a matrix with a non-zero Bloch phase and two
\* different corner entries to eigh.
C20_Witness ==
    /\ res.done /\ arg.prog = "7_1" /\ arg.k # 0 /\ arg.N > 3
    /\ res.h[<<1, arg.N>>] # res.h[<<arg.N, 1>>]
    /\ res.h[<<1, arg.N>>] = Conj(res.h[<<arg.N, 1>>])

---------------------------------------------------------------------------
(* 7_1: the colours of the bands in the left plot (main) and of the        *)
(* squared eigenfunctions in the right plot (plot_eigenfunktionen).        *)

\* largest number N_x of grid points, i.e. of eigenvalues per k
MaxNx == 7
\* largest eigenvalue; E_max ranges up to one more
MaxE == 1

\* colors = ['b', 'g', 'r', 'c', 'm', 'y']
colors == <<"b", "g", "r", "c", "m", "y">>

\* the rows of ew: for each k the eigenvalues as eigh returns them, sorted
Sortiert(n) ==
    {e \in [1..n -> 0..MaxE] : \A i \in 1..(n - 1) : e[i] <= e[i + 1]}

\* the smallest element of a non-empty set of numbers
Min(S) == CHOOSE m \in S : \A s \in S : m <= s

\* ew[:, ew.min(0) < E_max]: the indices (from 0) of the columns kept, in
\* increasing order
RECURSIVE Spalten(_, _, _)
Spalten(ew, E_max, j) ==
    IF j >= Len(ew[1]) THEN <<>>
    ELSE (IF Min({ew[r][j + 1] : r \in 1..Len(ew)}) < E_max
          THEN <<j>> ELSE <<>>) \o Spalten(ew, E_max, j + 1)

\* color=colors[i % len(colors)] in main
FarbeBand(i) == colors[(i % Len(colors)) + 1]

\* variant: the colours of the eigenfunctions start one entry later
FarbeEf_versetzt(i) == colors[((i + 1) % Len(colors)) + 1]

\* color=colors[i % len(colors)] in plot_eigenfunktionen
FarbeEf(i) == colors[(i % Len(colors)) + 1]

\* the eigenvalues for the two values of k that main's loop covers in the
\* model, E_max, and the index into them of the clicked k
FarbArgs ==
    UNION {[ew : [1..2 -> Sortiert(n)], E_max : 0..(MaxE + 1), klick : 1..2]
              : n \in 1..MaxNx}

\* main: energien, anz and the plot of the bands
MainSpektrum ==
    /\ res.pc = "main"
    /\ LET sp == Spalten(arg.ew, arg.E_max, 0)
       IN res' = [res EXCEPT
                    !.pc = "klick",
                    !.anz = Len(sp),
                    !.links = [i \in 1..Len(sp) |->
                                 [spalte |-> sp[i],
                                  color |-> FarbeBand(i - 1)]]]
    /\ UNCHANGED <<arg, guiVars, simVars, gasVars>>

\* an accepted click: plot_eigenfunktionen draws the first anz squared
\* eigenfunctions of the clicked k
KlickEigenfunktionen ==
    /\ res.pc = "klick"
    /\ res' = [res EXCEPT
                 !.pc = "return", !.done = TRUE,
                 !.rechts = [i \in 1..res.anz |->
                               [spalte |-> i - 1,
                                ew |-> arg.ew[arg.klick][i],
                                color |-> FarbeEf(i - 1)]]]
    /\ UNCHANGED <<arg, guiVars, simVars, gasVars>>

InitFarben ==
    /\ arg \in FarbArgs
    /\ res = [done |-> FALSE, pc |-> "main", anz |-> 0, links |-> <<>>,
              rechts |-> <<>>]
    /\ IdleGui /\ IdleSim /\ IdleGas

NextFarben == MainSpektrum \/ KlickEigenfunktionen

SpecFarben == InitFarben /\ [][NextFarben]_vars

\* C21: the i-th band of the spectrum in the left plot and the i-th squared
\* eigenfunction drawn in the right plot after a click both belong to the
\* i-th eigenvalue and have the same colour colors[i mod 6], for every
\* i < anz and every clicked k.
C21_SameColours ==
    res.done =>
        /\ Len(res.links) = res.anz /\ Len(res.rechts) = res.anz
        /\ \A i \in 0..(res.anz - 1) :
              /\ res.links[i + 1].spalte = i
              /\ res.rechts[i + 1].spalte = i
              /\ res.links[i + 1].color = colors[(i % 6) + 1]
              /\ res.rechts[i + 1].color = res.links[i + 1].color

\* C21 witness: more than six bands lie below E_max, so the seventh band
\* and eigenfunction reuse the first colour.
C21_Witness ==
    /\ res.done /\ res.anz = 7
    /\ res.links[7].color = "b" /\ res.rechts[7].color = "b"
    /\ res.rechts[2].color = "g"

---------------------------------------------------------------------------
(* 5_1: ef_plotten, the plot of the eigenfunctions over their energies.    *)

\* largest number of eigenvalues that diagonalisieren returns in the model
MaxZust == 5

\* farben = ["r", "g", "b", "y"]
farben_main == <<"r", "g", "b", "y">>

\* eigenwert[eigenwert < E_max]
RECURSIVE Kleiner(_, _)
Kleiner(eigenwert, E_max) ==
    IF eigenwert = <<>> THEN <<>>
    ELSE (IF Head(eigenwert) < E_max THEN <<Head(eigenwert)>> ELSE <<>>)
         \o Kleiner(Tail(eigenwert), E_max)

\* reversed(energien): its element number i (from 0)
Reversed(energien, i) == energien[Len(energien) - i]

\* variant: the eigenfunctions are taken in forward order
Spalte_vorwaerts(i, n) == i

\* len(energien)-i-1
Spalte(i, n) == n - i - 1

\* farben[i % len(farben)], or the IndexError of an index
\* outside the list
Farbe(farben, i) ==
    LET idx == i % Len(farben)
    IN IF idx + 1 \in DOMAIN farben THEN farben[idx + 1] ELSE "IndexError"

\* the eigenvalues in eigh's ascending order, E_max, and the colour list:
\* main's or a shorter non-empty one
EfArgs ==
    UNION {[eigenwert : Sortiert(n), E_max : 0..(MaxE + 1),
            farben : {SubSeq(farben_main, 1, l) : l \in 1..Len(farben_main)}]
              : n \in 1..MaxZust}

\* main up to the call and the first plot of ef_plotten: the potential
EfPotential ==
    /\ res.pc = "call"
    /\ res' = [res EXCEPT !.pc = "loop",
                          !.energien = Kleiner(arg.eigenwert, arg.E_max),
                          !.plots = <<[art |-> "V", c |-> "k"]>>]
    /\ UNCHANGED <<arg, guiVars, simVars, gasVars>>

\* one pass of the loop over enumerate(reversed(energien))
EfSchritt ==
    /\ res.pc = "loop" /\ res.i < Len(res.energien)
    /\ LET n == Len(res.energien)
           energie == Reversed(res.energien, res.i)
           c == Farbe(arg.farben, res.i)
       IN IF c = "IndexError"
          THEN res' = [res EXCEPT !.pc = "IndexError"]
          ELSE res' = [res EXCEPT
                  !.i = res.i + 1,
                  !.plots = res.plots \o
                     <<[art |-> "niveau", y |-> energie, c |-> c,
                        label |-> Spalte(res.i, n)],
                       [art |-> "kurve", spalte |-> Spalte(res.i, n),
                        y |-> energie, c |-> c]>>]
    /\ UNCHANGED <<arg, guiVars, simVars, gasVars>>

\* the loop is exhausted: ef_plotten returns
EfReturn ==
    /\ res.pc = "loop" /\ res.i = Len(res.energien)
    /\ res' = [res EXCEPT !.pc = "return", !.done = TRUE]
    /\ UNCHANGED <<arg, guiVars, simVars, gasVars>>

InitEf ==
    /\ arg \in EfArgs
    /\ res = [done |-> FALSE, pc |-> "call", i |-> 0, energien |-> <<>>,
              plots |-> <<>>]
    /\ IdleGui /\ IdleSim /\ IdleGas

NextEf == EfPotential \/ EfSchritt \/ EfReturn

SpecEf == InitEf /\ [][NextEf]_vars

\* C22: ef_plotten never stops with an index error, and when it has returned
\* it has drawn, for every j < len(energien), the level line at energien[j]
\* labelled Psi_j and directly after it the curve of eigenfunktion[:, j]
\* over the same energy in the same colour, the colour being taken
\* cyclically from farben, with the states in the order from the highest to
\* the lowest energy.
C22_LevelAndCurve ==
    /\ res.pc # "IndexError"
    /\ res.done =>
         LET n == Len(res.energien)
         IN /\ Len(res.plots) = 2 * n + 1
            /\ \A j \in 0..(n - 1) :
                 LET i == n - 1 - j
                     niveau == res.plots[2 * i + 2]
                     kurve == res.plots[2 * i + 3]
                 IN /\ niveau.art = "niveau" /\ kurve.art = "kurve"
                    /\ niveau.y = res.energien[j + 1]
                    /\ niveau.label = j
                    /\ kurve.spalte = j
                    /\ kurve.y = res.energien[j + 1]
                    /\ kurve.c = niveau.c
                    /\ niveau.c = arg.farben[(i % Len(arg.farben)) + 1]
            /\ \A i \in 1..(n - 1) :
                 res.plots[2 * i].y >= res.plots[2 * i + 2].y

\* C22 witness: five states were drawn with main's four colours, so the
\* lowest state, drawn last, reuses the first colour, and the energies
\* differ.
C22_Witness ==
    /\ res.done /\ Len(res.energien) = 5 /\ arg.farben = farben_main
    /\ res.plots[10].c = "r" /\ res.plots[10].label = 0
    /\ res.plots[11].c = "r" /\ res.plots[11].spalte = 0
    /\ res.plots[2].label = 4 /\ res.plots[2].y > res.plots[10].y

---------------------------------------------------------------------------
(* 9_1: the array x_0 over several accepted clicks.                        *)

\* C24: the handler never modifies the array x_0 that main binds into it:
\* after any number of clicks and at every point of their time loops x_0 is
\* still all zeros, and every accepted click starts its loop with all R
\* particles at 0, whatever the earlier clicks did.
C24_x_0_NeverModified ==
    /\ x_0 = [r \in 1..R |-> 0]
    /\ (outcome = "running" /\ tIdx = 0) =>
          /\ Len(x_t) = R
          /\ \A r \in 1..R : x_t[r] = 0

\* C24 witness: the second accepted click is in its time loop and has moved
\* particles away from the start; x_t is no longer the array x_0.
C24_Witness ==
    /\ klick = 2 /\ outcome = "running" /\ steps > 0
    /\ \E r \in 1..R : x_t[r] # 0
    /\ ~x_t_is_x_0
    /\ x_0 = [r \in 1..R |-> 0]

---------------------------------------------------------------------------
(* 1_1: the ranges of the points that torus_iteration returns.             *)

\* the order of the values of theta and p
Lt(a, b) == a[1] < b[1] \/ (a[1] = b[1] /\ a[2] < b[2])
Le(a, b) == a = b \/ Lt(a, b)

\* the two ends of the plotted range of theta and of p:
\* plt.axis([0, 2*np.pi, -np.pi, np.pi])
ThetaMin == Gitter(0)
ThetaMax == Gitter(TorusM)
PMin == Gitter(-(TorusM \div 2))
PMax == Gitter(TorusM - (TorusM \div 2))

\* C23 as stated: each returned theta is in [0, 2*pi) and each returned p is
\* in [-pi, pi), for any starting point, any K and any n.
C23_HalfOpenRanges ==
    /\ \A j \in 1..Len(res.plottheta) :
          Le(ThetaMin, res.plottheta[j]) /\ Lt(res.plottheta[j], ThetaMax)
    /\ \A j \in 1..Len(res.plotp) :
          Le(PMin, res.plotp[j]) /\ Lt(res.plotp[j], PMax)

\* C23 amended: each returned theta is in [0, 2*pi] and each returned p is
\* in [-pi, pi], for any starting point, any K and any n; the upper ends are
\* returned only where the rounding of % turns a negative value next to 0
\* into 2*pi, and never for a starting point on the grid.
C23_ClosedRanges ==
    /\ \A j \in 1..Len(res.plottheta) :
          Le(ThetaMin, res.plottheta[j]) /\ Le(res.plottheta[j], ThetaMax)
    /\ \A j \in 1..Len(res.plotp) :
          Le(PMin, res.plotp[j]) /\ Le(res.plotp[j], PMax)
    /\ (arg.theta[2] = 0 /\ arg.p[2] = 0) => C23_HalfOpenRanges

\* C23 witness: a call with K > 0 whose p started below -pi has returned two
\* or more points; the internal p is unwrapped and still below -pi, one
\* returned theta is 2*pi itself and another is not, and one returned p is
\* pi itself.
C23_Witness ==
    /\ res.done /\ arg.K > 0 /\ Len(res.plottheta) >= 2
    /\ Lt(arg.p, PMin) /\ Lt(res.p, PMin)
    /\ \E j \in 1..Len(res.plottheta) : res.plottheta[j] = ThetaMax
    /\ \E j \in 1..Len(res.plottheta) : res.plottheta[j] # ThetaMax
    /\ \E j \in 1..Len(res.plotp) : res.plotp[j] = PMax
===========================================================================
